---- MODULE Spec2Model ----
(***************************************************************************)
(* Model of the process-exec detection engine of pnotify:                  *)
(*   - listenProcExec and its receive goroutine      (src/procconn.go)     *)
(*   - ProcessWatcher.run / runPolling / snapshot    (src/unnamed/part_000)*)
(* The main goroutine (run) and the receive goroutine are two processes;   *)
(* the kernel, the clock, the process table and the signal source are the  *)
(* environment.                                                            *)
(***************************************************************************)
EXTENDS Integers, Sequences, FiniteSets, TLC

\* ------------------------------------------------------------------ bounds
MaxReads == 2       \* returns of syscall.Read other than EINTR in one run
MaxTime == 4        \* seconds of wall-clock time that pass in one run
PidChCap == 2       \* capacity of the pid channel (64 in listenProcExec)

\* ------------------------------------------------------- program constants
CN_IDX_PROC == 1
CN_VAL_PROC == 1
PROC_EVENT_EXEC == 2
cnMsgHeaderSize == 20
procEventMinSize == 24
fallbackPollInterval == 2

\* process ids of the process table and of the kernel's exec events
Pids == {1, 7, 9}

\* what the process table can hold when process.Pids() reads it
Tables == SUBSET Pids

\* ------------------------------------------------------------------- codec
\* A uint32 is held as its two 16-bit halves <<hi, lo>>.
U32(n) == <<n \div 65536, n % 65536>>

\* int32(x) of a uint32 x: two's complement
Int32(x) ==
    IF x[1] >= 32768 THEN (x[1] - 65536) * 65536 + x[2]
    ELSE x[1] * 65536 + x[2]

\* Bytes are numbers 0..255 and a buffer is a sequence of bytes.
\* binary.NativeEndian is taken as little-endian.
Bytes16(n) == <<n % 256, n \div 256>>
Bytes32(x) == Bytes16(x[2]) \o Bytes16(x[1])
Zeros(n) == [i \in 1..n |-> 0]

\* the uint32 at byte offset off (from 0) of a buffer
U32At(data, off) ==
    << data[off + 3] + 256 * data[off + 4], data[off + 1] + 256 * data[off + 2] >>

\* binary.Size of cnMsg: Idx, Val, Seq, Ack uint32; Len, Flags uint16
cnMsgSize == 4 + 4 + 4 + 4 + 2 + 2
\* binary.Size of procEvent: What, CPU uint32; Timestamp uint64; ExecPid,
\* ExecTgid uint32
procEventSize == 4 + 4 + 8 + 4 + 4
\* offsets of the fields that are read, in their struct
IdxOffset == 0
ValOffset == 4
WhatOffset == 0
ExecPidOffset == 4 + 4 + 8

\* The bytes of a connector message as the kernel lays it out: a cnMsg
\* header (Seq, Ack, Flags zero) and a procEvent (CPU, Timestamp zero). All
\* fields are uint32 halves <<hi, lo>>.
Frame(idx, val, what, pid, tgid) ==
    Bytes32(idx) \o Bytes32(val) \o Zeros(8) \o Bytes16(procEventSize) \o Bytes16(0)
    \o Bytes32(what) \o Zeros(4) \o Zeros(8) \o Bytes32(pid) \o Bytes32(tgid)

\* msg.Data of one netlink message: the first len bytes of the frame with
\* the given connector index and value, event tag and exec pid (a uint32).
MsgData(len, idx, val, what, pid) ==
    SubSeq(Frame(U32(idx), U32(val), U32(what), pid, pid), 1, len)

ExecMsg(p) ==
    MsgData(cnMsgHeaderSize + procEventMinSize, CN_IDX_PROC, CN_VAL_PROC,
            PROC_EVENT_EXEC, U32(p))
\* a well-formed frame with another event tag (PROC_EVENT_FORK)
ForkMsg(p) ==
    MsgData(cnMsgHeaderSize + procEventMinSize, CN_IDX_PROC, CN_VAL_PROC,
            PROC_EVENT_EXEC - 1, U32(p))
\* a frame cut after the connector header
ShortMsg == MsgData(cnMsgHeaderSize, CN_IDX_PROC, CN_VAL_PROC, 0, U32(0))

\* binary.Read of size bytes from a bytes.Reader at position pos: it fails
\* when fewer bytes are left, and has then consumed what was left.
binaryReadOk(data, pos, size) == pos + size <= Len(data)

\* parseCnProcExecRun with the event tag not compared: every process event
\* is taken for an exec.
parseCnProcExecRun_AnyEvent(data) ==
    IF Len(data) < cnMsgHeaderSize + procEventMinSize
    THEN [pid |-> 0, ok |-> FALSE, pos |-> 0]
    ELSE IF ~binaryReadOk(data, 0, cnMsgSize)
    THEN [pid |-> 0, ok |-> FALSE, pos |-> Len(data)]
    ELSE IF \/ U32At(data, IdxOffset) # U32(CN_IDX_PROC)
            \/ U32At(data, ValOffset) # U32(CN_VAL_PROC)
    THEN [pid |-> 0, ok |-> FALSE, pos |-> cnMsgSize]
    ELSE IF ~binaryReadOk(data, cnMsgSize, procEventSize)
    THEN [pid |-> 0, ok |-> FALSE, pos |-> Len(data)]
    ELSE [pid |-> Int32(U32At(data, cnMsgSize + ExecPidOffset)), ok |-> TRUE,
          pos |-> cnMsgSize + procEventSize]

\* parseCnProcExecRun with the ExecTgid field returned for the pid.
parseCnProcExecRun_Tgid(data) ==
    IF Len(data) < cnMsgHeaderSize + procEventMinSize
    THEN [pid |-> 0, ok |-> FALSE, pos |-> 0]
    ELSE IF ~binaryReadOk(data, 0, cnMsgSize)
    THEN [pid |-> 0, ok |-> FALSE, pos |-> Len(data)]
    ELSE IF \/ U32At(data, IdxOffset) # U32(CN_IDX_PROC)
            \/ U32At(data, ValOffset) # U32(CN_VAL_PROC)
    THEN [pid |-> 0, ok |-> FALSE, pos |-> cnMsgSize]
    ELSE IF ~binaryReadOk(data, cnMsgSize, procEventSize)
    THEN [pid |-> 0, ok |-> FALSE, pos |-> Len(data)]
    ELSE IF U32At(data, cnMsgSize + WhatOffset) # U32(PROC_EVENT_EXEC)
    THEN [pid |-> 0, ok |-> FALSE, pos |-> cnMsgSize + procEventSize]
    ELSE [pid |-> Int32(U32At(data, cnMsgSize + ExecPidOffset + 4)), ok |-> TRUE,
          pos |-> cnMsgSize + procEventSize]

\* A run of parseCnProcExec on a buffer: the pid and ok it returns, and pos,
\* the number of bytes its reader has consumed at the return.
parseCnProcExecRun(data) ==
    IF Len(data) < cnMsgHeaderSize + procEventMinSize
    THEN [pid |-> 0, ok |-> FALSE, pos |-> 0]
    ELSE IF ~binaryReadOk(data, 0, cnMsgSize)
    THEN [pid |-> 0, ok |-> FALSE, pos |-> Len(data)]
    ELSE IF \/ U32At(data, IdxOffset) # U32(CN_IDX_PROC)
            \/ U32At(data, ValOffset) # U32(CN_VAL_PROC)
    THEN [pid |-> 0, ok |-> FALSE, pos |-> cnMsgSize]
    ELSE IF ~binaryReadOk(data, cnMsgSize, procEventSize)
    THEN [pid |-> 0, ok |-> FALSE, pos |-> Len(data)]
    ELSE IF U32At(data, cnMsgSize + WhatOffset) # U32(PROC_EVENT_EXEC)
    THEN [pid |-> 0, ok |-> FALSE, pos |-> cnMsgSize + procEventSize]
    ELSE [pid |-> Int32(U32At(data, cnMsgSize + ExecPidOffset)), ok |-> TRUE,
          pos |-> cnMsgSize + procEventSize]

\* parseCnProcExec: <<pid, ok>>
parseCnProcExec(data) ==
    LET r == parseCnProcExecRun(data) IN <<r.pid, r.ok>>

\* A datagram as syscall.Read returns it: the messages it holds, and whether
\* syscall.ParseNetlinkMessage accepts its framing.
Datagram(framed, ms) == [framed |-> framed, msgs |-> ms]

\* syscall.ParseNetlinkMessage: <<msgs, err>>
ParseNetlinkMessage(d) ==
    IF d.framed THEN <<d.msgs, FALSE>> ELSE <<<< >>, TRUE>>

\* the datagrams the kernel sends
Datagrams ==
    { Datagram(TRUE, <<ExecMsg(7)>>),
      Datagram(TRUE, <<ExecMsg(7), ForkMsg(9), ShortMsg, ExecMsg(9), ExecMsg(7)>>),
      Datagram(FALSE, << >>) }

\* errors of syscall.Read other than EINTR
ReadErrors == {"ENOBUFS", "EIO"}

\* ------------------------------------------------------------------- state
VARIABLES
    pc,          \* run(): "starting", "netlink", "polling", "stopped"
    listenErr,   \* result of listenProcExec: "unset", "nil", or the failing step
    sigCh,       \* sigCh (capacity 1): a signal is queued
    cancelled,   \* ctx is done (cancel() ran)
    sockOpen,    \* the netlink fd is open
    gpc,         \* receive goroutine: "none", "select", "read", "msgs",
                 \*   "return" (deferred close(ch) next), "closefd", "done"
    msgs,        \* messages of the current datagram not yet handled
    reads,       \* returns of syscall.Read so far, EINTR apart
    readAt,      \* time of the last datagram that syscall.Read returned
    ch,          \* buffered pid channel
    chClosed,    \* close(ch) ran
    glog,        \* log lines of the receive goroutine
    accepted,    \* history: <<pid, time read>> of every send on ch that succeeded
    execRead,    \* history: the pids of the exec messages read from the socket
    seen,        \* runPolling: the previous snapshot
    ticker,      \* "none", "running", "stopped"
    tickerStart, \* time of time.NewTicker
    tickC,       \* ticker.C (capacity 1): a tick is queued
    ticks,       \* ticks handled by runPolling
    steady,      \* history: the processes in the table at every enumeration
                 \*   of runPolling so far, failed ones included
    enumFails,   \* history: the last enumerations of runPolling that failed
    checked,     \* history: the calls of checkNew, [pids, src]
    now,         \* the clock, in seconds
    decIn,       \* a buffer handed to parseCnProcExec on its own
    decOut       \* what parseCnProcExec made of decIn

vars == <<pc, listenErr, sigCh, cancelled, sockOpen, gpc, msgs, reads, readAt, ch,
          chClosed, glog, accepted, seen, ticker, tickerStart, tickC, ticks,
          checked, now, execRead, steady, enumFails, decIn, decOut>>

mainVars == <<pc, listenErr>>
gVars == <<gpc, msgs, reads, readAt, ch, chClosed, glog, accepted, execRead>>
pollVars == <<seen, ticker, tickerStart, tickC, ticks, steady, enumFails>>
envVars == <<now>>
codecVars == <<decIn, decOut>>

\* no run of parseCnProcExec on decIn yet
DecIdle == [done |-> FALSE, pid |-> 0, ok |-> FALSE, pos |-> 0]

\* the pids of the exec messages among ms, in order
ExecPids(ms) ==
    LET ex == SelectSeq(ms, LAMBDA m : parseCnProcExec(m)[2])
    IN  [i \in 1..Len(ex) |-> parseCnProcExec(ex[i])[1]]

\* run() up to its call of listenProcExec
ProgInit ==
    /\ pc = "starting"
    /\ listenErr = "unset"
    /\ sigCh = FALSE
    /\ cancelled = FALSE
    /\ sockOpen = FALSE
    /\ gpc = "none"
    /\ msgs = << >>
    /\ reads = 0
    /\ readAt = 0
    /\ ch = << >>
    /\ chClosed = FALSE
    /\ glog = << >>
    /\ accepted = << >>
    /\ seen = {}
    /\ ticker = "none"
    /\ tickerStart = 0
    /\ tickC = FALSE
    /\ ticks = 0
    /\ checked = << >>
    /\ now = 0
    /\ execRead = << >>
    /\ steady = {}
    /\ enumFails = 0

Init ==
    /\ ProgInit
    /\ decIn = << >>
    /\ decOut = DecIdle

\* ------------------------------------------------------------ environment
\* SIGINT/SIGTERM: signal.Notify does a non-blocking send on sigCh. Nothing
\* receives from sigCh once run() has returned.
Signal ==
    /\ pc # "stopped"
    /\ sigCh' = TRUE
    /\ sigCh = FALSE
    /\ UNCHANGED <<mainVars, cancelled, sockOpen, gVars, pollVars, checked,
                   envVars>>
    /\ UNCHANGED codecVars

\* One second passes; a running ticker queues a tick every fallbackPollInterval
\* (a tick is dropped when ticker.C still holds one). The clock is followed
\* until run() returns.
TimePasses ==
    /\ pc # "stopped"
    /\ now < MaxTime
    /\ now' = now + 1
    /\ tickC' = IF /\ ticker = "running"
                   /\ (now' - tickerStart) % fallbackPollInterval = 0
                THEN TRUE ELSE tickC
    /\ UNCHANGED <<mainVars, sigCh, cancelled, sockOpen, gVars, seen, ticker,
                   tickerStart, steady, enumFails, ticks, checked>>
    /\ UNCHANGED codecVars

\* ------------------------------------------------------------------ poller
\* ProcessWatcher.snapshot, with the process table as process.Pids() finds
\* it: the error of process.Pids() is discarded, so a failed enumeration
\* yields the empty set.
snapshot(ok, table) == IF ok THEN table ELSE {}

\* ProcessWatcher.checkNew, as the consumer's hand-off point: the call and
\* the caller (src) are recorded.
checkNew(newPIDs, src) ==
    checked' = Append(checked, [pids |-> newPIDs, src |-> src])

\* runPollingStart with the baseline handed to checkNew as a batch of new
\* processes.
runPollingStart_ReportsBaseline(ok, table) ==
    /\ seen' = snapshot(ok, table)
    /\ IF snapshot(ok, table) # {} THEN checkNew(snapshot(ok, table), "poll")
                            ELSE checked' = checked
    /\ ticker' = "running"
    /\ tickerStart' = now
    /\ tickC' = FALSE
    /\ ticks' = 0
    /\ steady' = table
    /\ enumFails' = IF ok THEN 0 ELSE 1

\* runPolling up to its loop: the baseline snapshot, which is not handed to
\* checkNew, then the ticker.
runPollingStart(ok, table) ==
    /\ seen' = snapshot(ok, table)
    /\ checked' = checked
    /\ ticker' = "running"
    /\ tickerStart' = now
    /\ tickC' = FALSE
    /\ ticks' = 0
    /\ steady' = table
    /\ enumFails' = IF ok THEN 0 ELSE 1

\* PollTick that probes the event source again and goes back to the netlink
\* loop.
PollTick_Reprobe ==
    /\ pc = "polling"
    /\ tickC
    /\ tickC' = FALSE
    /\ ticks' = ticks + 1
    /\ pc' = "netlink"
    /\ sockOpen' = TRUE
    /\ ticker' = "stopped"
    /\ UNCHANGED <<listenErr, sigCh, cancelled, gVars, seen, tickerStart,
                   steady, enumFails, checked, envVars>>
    /\ UNCHANGED codecVars

\* PollTick comparing every snapshot with the baseline: seen is not replaced.
PollTick_KeepsBaseline ==
    /\ pc = "polling"
    /\ tickC
    /\ \E ok \in BOOLEAN, table \in Tables :
         LET current == snapshot(ok, table)
             newPIDs == current \ seen
         IN  /\ IF newPIDs # {} THEN checkNew(newPIDs, "poll")
                                ELSE checked' = checked
             /\ seen' = seen
             /\ steady' = steady \cap table
             /\ enumFails' = IF ok THEN 0 ELSE enumFails + 1
    /\ tickC' = FALSE
    /\ ticks' = ticks + 1
    /\ UNCHANGED <<mainVars, sigCh, cancelled, sockOpen, gVars, ticker,
                   tickerStart, envVars>>
    /\ UNCHANGED codecVars

\* runPolling, case <-ticker.C
PollTick ==
    /\ pc = "polling"
    /\ tickC
    /\ \E ok \in BOOLEAN, table \in Tables :
         LET current == snapshot(ok, table)
             newPIDs == current \ seen
         IN  /\ IF newPIDs # {} THEN checkNew(newPIDs, "poll")
                                ELSE checked' = checked
             /\ seen' = current
             /\ steady' = steady \cap table
             /\ enumFails' = IF ok THEN 0 ELSE enumFails + 1
    /\ tickC' = FALSE
    /\ ticks' = ticks + 1
    /\ UNCHANGED <<mainVars, sigCh, cancelled, sockOpen, gVars, ticker,
                   tickerStart, envVars>>
    /\ UNCHANGED codecVars

\* ------------------------------------------------------------------- run()
\* listenProcExec returns a channel: socket, bind and subscribe succeeded and
\* the receive goroutine is started.
ListenOk ==
    /\ pc = "starting"
    /\ listenErr' = "nil"
    /\ sockOpen' = TRUE
    /\ gpc' = "select"
    /\ pc' = "netlink"
    /\ UNCHANGED <<sigCh, cancelled, msgs, reads, readAt, ch, chClosed, glog,
                   accepted, execRead, pollVars, checked, envVars>>
    /\ UNCHANGED codecVars

\* ListenFail with the connect error ending the session instead of starting
\* the poller.
ListenFail_Fatal ==
    /\ pc = "starting"
    /\ \E e \in {"socket", "bind", "subscribe"} : listenErr' = e
    /\ sockOpen' = FALSE
    /\ pc' = "stopped"
    /\ cancelled' = TRUE
    /\ UNCHANGED <<sigCh, gVars, pollVars, checked, envVars>>
    /\ UNCHANGED codecVars

\* listenProcExec returns an error (the fd, if any, is closed before the
\* return); run() logs a warning and calls runPolling.
ListenFail ==
    /\ pc = "starting"
    /\ \E e \in {"socket", "bind", "subscribe"} : listenErr' = e
    /\ sockOpen' = FALSE
    /\ \E ok \in BOOLEAN, table \in Tables : runPollingStart(ok, table)
    /\ pc' = "polling"
    /\ UNCHANGED <<sigCh, cancelled, gVars, envVars>>
    /\ UNCHANGED codecVars

\* MainRecv with the newest value of the channel received first.
MainRecv_Lifo ==
    /\ pc = "netlink"
    /\ ch # << >>
    /\ ch' = SubSeq(ch, 1, Len(ch) - 1)
    /\ checkNew({ch[Len(ch)]}, "netlink")
    /\ UNCHANGED <<mainVars, sigCh, cancelled, sockOpen, gpc, msgs, reads,
                   readAt, chClosed, glog, accepted, execRead, pollVars,
                   envVars>>
    /\ UNCHANGED codecVars

\* run(), case pid, ok := <-pidCh with ok: a buffered value is received
\* (also from a closed channel that still holds values).
MainRecv ==
    /\ pc = "netlink"
    /\ ch # << >>
    /\ ch' = Tail(ch)
    /\ checkNew({Head(ch)}, "netlink")
    /\ UNCHANGED <<mainVars, sigCh, cancelled, sockOpen, gpc, msgs, reads,
                   readAt, chClosed, glog, accepted, execRead, pollVars,
                   envVars>>
    /\ UNCHANGED codecVars

\* MainChanClosed with the closed channel read as ended while it still holds
\* values, which are discarded.
MainChanClosed_NoDrain ==
    /\ pc = "netlink"
    /\ chClosed
    /\ ch' = << >>
    /\ \E ok \in BOOLEAN, table \in Tables : runPollingStart(ok, table)
    /\ pc' = "polling"
    /\ UNCHANGED <<listenErr, sigCh, cancelled, sockOpen, gpc, msgs, reads,
                   readAt, chClosed, glog, accepted, execRead, envVars>>
    /\ UNCHANGED codecVars

\* run(), case pid, ok := <-pidCh with !ok: the channel is closed and empty;
\* run() calls runPolling.
MainChanClosed ==
    /\ pc = "netlink"
    /\ ch = << >>
    /\ chClosed
    /\ \E ok \in BOOLEAN, table \in Tables : runPollingStart(ok, table)
    /\ pc' = "polling"
    /\ UNCHANGED <<listenErr, sigCh, cancelled, sockOpen, gVars, envVars>>
    /\ UNCHANGED codecVars

\* MainSignal with the signal case missing from the select of runPolling.
MainSignal_NotInPolling ==
    /\ pc = "netlink"
    /\ sigCh
    /\ sigCh' = FALSE
    /\ pc' = "stopped"
    /\ cancelled' = TRUE
    /\ UNCHANGED <<listenErr, sockOpen, gVars, pollVars, checked, envVars>>
    /\ UNCHANGED codecVars

\* MainSignal with run() closing the pid channel on its way out.
MainSignal_ClosesChannel ==
    /\ pc \in {"netlink", "polling"}
    /\ sigCh
    /\ sigCh' = FALSE
    /\ pc' = "stopped"
    /\ cancelled' = TRUE
    /\ chClosed' = TRUE
    /\ ticker' = IF ticker = "running" THEN "stopped" ELSE ticker
    /\ UNCHANGED <<listenErr, sockOpen, gpc, msgs, reads, readAt, ch, glog,
                   accepted, execRead, seen, tickerStart, steady, enumFails,
                   tickC, ticks, checked, envVars>>
    /\ UNCHANGED codecVars

\* case s := <-sigCh, in run() or in runPolling: return. The deferred
\* ticker.Stop() (runPolling) and cancel() (run) run on the way out.
MainSignal ==
    /\ pc \in {"netlink", "polling"}
    /\ sigCh
    /\ sigCh' = FALSE
    /\ pc' = "stopped"
    /\ cancelled' = TRUE
    /\ ticker' = IF ticker = "running" THEN "stopped" ELSE ticker
    /\ UNCHANGED <<listenErr, sockOpen, gVars, seen, tickerStart, steady,
                   enumFails, tickC, ticks, checked, envVars>>
    /\ UNCHANGED codecVars

\* ------------------------------------------------------- receive goroutine
\* select { case <-ctx.Done(): return; default: }
GCheckCtx ==
    /\ gpc = "select"
    /\ gpc' = IF cancelled THEN "return" ELSE "read"
    /\ UNCHANGED <<mainVars, sigCh, cancelled, sockOpen, msgs, reads, readAt,
                   ch, chClosed, glog, accepted, execRead, pollVars, checked,
                   envVars>>
    /\ UNCHANGED codecVars

\* syscall.Read returns EINTR: continue.
GReadEINTR ==
    /\ gpc = "read"
    /\ gpc' = "select"
    /\ UNCHANGED <<mainVars, sigCh, cancelled, sockOpen, msgs, reads, readAt,
                   ch, chClosed, glog, accepted, execRead, pollVars, checked,
                   envVars>>
    /\ UNCHANGED codecVars

\* GReadErr with ENOBUFS ending the loop like any other error.
GReadErr_EnobufsTerminal ==
    /\ gpc = "read"
    /\ reads < MaxReads
    /\ reads' = reads + 1
    /\ \E e \in ReadErrors :
         /\ gpc' = "return"
         /\ glog' = IF e = "ENOBUFS" THEN Append(glog, <<"ENOBUFS">>)
                    ELSE Append(glog, <<"read error">>)
    /\ UNCHANGED <<mainVars, sigCh, cancelled, sockOpen, msgs, readAt, ch,
                   chClosed, accepted, execRead, pollVars, checked, envVars>>
    /\ UNCHANGED codecVars

\* syscall.Read returns another error: ENOBUFS is logged and the loop
\* continues, any other error is logged and the goroutine returns.
GReadErr ==
    /\ gpc = "read"
    /\ reads < MaxReads
    /\ reads' = reads + 1
    /\ \E e \in ReadErrors :
         /\ gpc' = IF e = "ENOBUFS" THEN "select" ELSE "return"
         /\ glog' = IF e = "ENOBUFS" THEN Append(glog, <<"ENOBUFS">>)
                    ELSE Append(glog, <<"read error">>)
    /\ UNCHANGED <<mainVars, sigCh, cancelled, sockOpen, msgs, readAt, ch,
                   chClosed, accepted, execRead, pollVars, checked, envVars>>
    /\ UNCHANGED codecVars

\* syscall.Read returns a datagram; ParseNetlinkMessage splits it.
GReadData ==
    /\ gpc = "read"
    /\ reads < MaxReads
    /\ reads' = reads + 1
    /\ readAt' = now
    /\ \E d \in Datagrams :
         LET r == ParseNetlinkMessage(d)
         IN  /\ msgs' = IF r[2] THEN << >> ELSE r[1]
             /\ gpc' = IF r[2] \/ r[1] = << >> THEN "select" ELSE "msgs"
             /\ execRead' = execRead \o ExecPids(msgs')
    /\ UNCHANGED <<mainVars, sigCh, cancelled, sockOpen, ch, chClosed, glog,
                   accepted, pollVars, checked, envVars>>
    /\ UNCHANGED codecVars

\* GSend with a blocking send ch <- pid: it waits while the channel is full.
GSend_Blocking ==
    /\ gpc = "msgs"
    /\ LET r == parseCnProcExec(Head(msgs))
           pid == r[1]
       IN  IF ~r[2]
           THEN UNCHANGED <<ch, accepted, glog>>
           ELSE /\ Len(ch) < PidChCap
                /\ ch' = Append(ch, pid)
                /\ accepted' = Append(accepted, <<pid, readAt>>)
                /\ glog' = glog
    /\ msgs' = Tail(msgs)
    /\ gpc' = IF Tail(msgs) = << >> THEN "select" ELSE "msgs"
    /\ UNCHANGED <<mainVars, sigCh, cancelled, sockOpen, reads, readAt,
                   chClosed, execRead, pollVars, checked, envVars>>
    /\ UNCHANGED codecVars

\* GSend with the message loop left at the first message that is not an
\* exec event: the rest of the datagram is not looked at.
GSend_StopAtOtherMessage ==
    /\ gpc = "msgs"
    /\ LET r == parseCnProcExec(Head(msgs))
           pid == r[1]
       IN  IF ~r[2]
           THEN /\ UNCHANGED <<ch, accepted, glog>>
                /\ msgs' = << >>
                /\ gpc' = "select"
           ELSE /\ IF Len(ch) < PidChCap
                   THEN /\ ch' = Append(ch, pid)
                        /\ accepted' = Append(accepted, <<pid, readAt>>)
                        /\ glog' = glog
                   ELSE /\ glog' = Append(glog, <<"drop", pid>>)
                        /\ UNCHANGED <<ch, accepted>>
                /\ msgs' = Tail(msgs)
                /\ gpc' = IF Tail(msgs) = << >> THEN "select" ELSE "msgs"
    /\ UNCHANGED <<mainVars, sigCh, cancelled, sockOpen, reads, readAt,
                   chClosed, execRead, pollVars, checked, envVars>>
    /\ UNCHANGED codecVars

\* One iteration of `for _, msg := range msgs`: decode, then the
\* non-blocking send select { case ch <- pid: default: log }.
GSend ==
    /\ gpc = "msgs"
    /\ LET r == parseCnProcExec(Head(msgs))
           pid == r[1]
       IN  IF ~r[2]
           THEN UNCHANGED <<ch, accepted, glog>>
           ELSE IF Len(ch) < PidChCap
           THEN /\ ch' = Append(ch, pid)
                /\ accepted' = Append(accepted, <<pid, readAt>>)
                /\ glog' = glog
           ELSE /\ glog' = Append(glog, <<"drop", pid>>)
                /\ UNCHANGED <<ch, accepted>>
    /\ msgs' = Tail(msgs)
    /\ gpc' = IF Tail(msgs) = << >> THEN "select" ELSE "msgs"
    /\ UNCHANGED <<mainVars, sigCh, cancelled, sockOpen, reads, readAt,
                   chClosed, execRead, pollVars, checked, envVars>>
    /\ UNCHANGED codecVars

\* the deferred close(ch): registered last, it runs first
GCloseCh ==
    /\ gpc = "return"
    /\ chClosed' = TRUE
    /\ gpc' = "closefd"
    /\ UNCHANGED <<mainVars, sigCh, cancelled, sockOpen, msgs, reads, readAt,
                   ch, glog, accepted, execRead, pollVars, checked, envVars>>
    /\ UNCHANGED codecVars

\* the deferred syscall.Close(fd): registered first, it runs last
GCloseFd ==
    /\ gpc = "closefd"
    /\ sockOpen' = FALSE
    /\ gpc' = "done"
    /\ UNCHANGED <<mainVars, sigCh, cancelled, msgs, reads, readAt, ch,
                   chClosed, glog, accepted, execRead, pollVars, checked,
                   envVars>>
    /\ UNCHANGED codecVars

\* ------------------------------------------------------ the decoder alone
\* values of the ExecPid and ExecTgid fields: 0, a small pid, the ends of
\* the 16-bit halves and of the int32 and uint32 ranges
CodecPidFields ==
    { <<0, 0>>, <<0, 7>>, <<0, 65535>>, <<1, 0>>, <<32767, 65535>>,
      <<32768, 0>>, <<32768, 7>>, <<65535, 65535>> }

\* values of Idx, Val and What: the expected one, others, and one that
\* differs from the expected one in its high half only
CodecTags(expected) == { U32(expected), U32(expected - 1), U32(expected + 1),
                         <<1, expected>> }

\* the buffers handed to parseCnProcExec: every cut of an exec frame, from
\* the empty buffer to the whole frame, whole frames over the field values,
\* and frames followed by more bytes
CodecInputs ==
    LET whole == { Frame(i, v, w, p, t) :
                     i \in CodecTags(CN_IDX_PROC), v \in CodecTags(CN_VAL_PROC),
                     w \in CodecTags(PROC_EVENT_EXEC),
                     p \in {<<0, 7>>, <<32768, 7>>}, t \in {<<0, 9>>} }
                 \cup
                 { Frame(U32(CN_IDX_PROC), U32(CN_VAL_PROC), U32(PROC_EVENT_EXEC), p, t) :
                     p \in CodecPidFields, t \in CodecPidFields }
    IN  { SubSeq(ExecMsg(7), 1, n) : n \in 0..Len(ExecMsg(7)) }
        \cup whole
        \cup { ExecMsg(p) \o Zeros(n) : p \in {7, 9}, n \in 1..4 }
        \cup { ForkMsg(7) \o Zeros(4) }

\* the state before run(), with a buffer for the decoder
CodecInit ==
    /\ ProgInit
    /\ decIn \in CodecInputs
    /\ decOut = DecIdle

\* parseCnProcExec(decIn)
Decode ==
    /\ ~decOut.done
    /\ decOut' = [done |-> TRUE] @@ parseCnProcExecRun(decIn)
    /\ decIn' = decIn
    /\ UNCHANGED <<mainVars, sigCh, cancelled, sockOpen, gVars, pollVars,
                   checked, envVars>>

\* the next buffer
Feed ==
    /\ decOut.done
    /\ decIn' \in CodecInputs
    /\ decOut' = DecIdle
    /\ UNCHANGED <<mainVars, sigCh, cancelled, sockOpen, gVars, pollVars,
                   checked, envVars>>

CodecNext == Decode \/ Feed

CodecSpec == CodecInit /\ [][CodecNext]_vars

\* ----------------------------------------------------------- specification
Next ==
    \/ Signal
    \/ TimePasses
    \/ ListenOk
    \/ ListenFail
    \/ MainRecv
    \/ MainChanClosed
    \/ MainSignal
    \/ PollTick
    \/ GCheckCtx
    \/ GReadEINTR
    \/ GReadErr
    \/ GReadData
    \/ GSend
    \/ GCloseCh
    \/ GCloseFd

Spec == Init /\ [][Next]_vars

\* Scheduling: listenProcExec returns; a select whose signal case is ready
\* takes it sooner or later (Go chooses among ready cases at random); the
\* receive goroutine runs its own steps. When syscall.Read returns is up to
\* the kernel, and so are signals, time and the process table: no fairness.
FairSpec ==
    /\ Spec
    /\ WF_vars(ListenOk \/ ListenFail)
    /\ WF_vars(MainSignal)
    /\ WF_vars(GCheckCtx \/ GSend \/ GCloseCh \/ GCloseFd)

\* ------------------------------------------------------------------ history
\* the pids handed to checkNew by the netlink loop of run(), in order
NetlinkChecked ==
    LET nl == SelectSeq(checked, LAMBDA c : c.src = "netlink")
    IN  [i \in 1..Len(nl) |-> CHOOSE p \in nl[i].pids : TRUE]
\* the batches handed to checkNew by runPolling, in order
PollChecked == SelectSeq(checked, LAMBDA c : c.src = "poll")
\* the pids accepted into the pid channel, in order
AcceptedPids == [i \in 1..Len(accepted) |-> accepted[i][1]]
PollerStarted == ticker # "none"

\* s can be had from t by deleting elements of t
RECURSIVE IsSubseq(_, _)
IsSubseq(s, t) ==
    IF s = << >> THEN TRUE
    ELSE IF t = << >> THEN FALSE
    ELSE IF Head(s) = Head(t) THEN IsSubseq(Tail(s), Tail(t))
    ELSE IsSubseq(s, Tail(t))

\* ------------------------------------------------------------------- claims

\* C1: when listenProcExec fails (socket, bind or subscribe), run() does not
\* end the session: the poller is started with no socket and no receive
\* goroutine, run() ends only through the signal case, and every call of
\* checkNew comes from the poller, one per handled tick at most.
C1_ConnectFailureFallsBackToPolling ==
    listenErr \in {"socket", "bind", "subscribe"} =>
        /\ pc \in {"polling", "stopped"}
        /\ PollerStarted
        /\ ~sockOpen
        /\ gpc = "none"
        /\ pc = "stopped" => ticker = "stopped"
        /\ \A i \in 1..Len(checked) : checked[i].src = "poll"
        /\ Len(checked) <= ticks

C1_Witness ==
    /\ listenErr = "bind"
    /\ pc = "polling"
    /\ ticks = 2
    /\ Len(checked) = 1

\* C2: once run() has switched from the netlink loop to runPolling (the
\* channel was closed after a terminal read error; a stop signal would have
\* ended run() instead), every pid accepted into the channel has been handed
\* to checkNew exactly once, in order, and before any batch of the poller.
C2_AcceptedDeliveredOnceBeforePolling ==
    (listenErr = "nil" /\ PollerStarted) =>
        /\ NetlinkChecked = AcceptedPids
        /\ ch = << >>
        /\ \A i, j \in 1..Len(checked) :
             (i < j /\ checked[i].src = "poll") => checked[j].src = "poll"

C2_Witness ==
    /\ listenErr = "nil"
    /\ pc = "polling"
    /\ ticks = 0
    /\ glog = << <<"read error">> >>
    /\ AcceptedPids = <<7>>
    /\ NetlinkChecked = <<7>>

\* C3: the netlink socket is never open while the poller runs (its baseline
\* is taken and its ticker created).
C3_AtMostOneModeLive == ~(sockOpen /\ PollerStarted)

\* C4: a pid that the netlink source produced twice at the same instant (so
\* within any suppression window) is handed to checkNew once only.
C4_DuplicateSuppressedWithinWindow ==
    \A i, j \in 1..Len(NetlinkChecked) :
        (/\ i < j
         /\ j <= Len(accepted)
         /\ NetlinkChecked[i] = NetlinkChecked[j])
        => accepted[i][2] # accepted[j][2]

\* C5: the baseline snapshot is not handed to checkNew: the poller hands
\* over nothing until it has handled a tick, and that is no earlier than
\* fallbackPollInterval after the ticker was created.
C5_BaselineNotReported ==
    /\ ticks = 0 => PollChecked = << >>
    /\ PollChecked # << >> => now - tickerStart >= fallbackPollInterval

\* polling started with a non-empty process table that the baseline holds, and
\* time has passed, with nothing handed over
C5_Witness ==
    /\ pc = "polling"
    /\ seen = {1, 7, 9}
    /\ ticks = 0
    /\ now - tickerStart = 1
    /\ checked = << >>

\* C6: a handled tick hands to checkNew exactly the snapshot it took minus
\* the previous snapshot, in one call and only if that set is not empty, and
\* replaces the previous snapshot by the one it took.
C6_TickForwardsDifference ==
    [][ticks' = ticks + 1 =>
         \E current \in Tables :
            /\ seen' = current
            /\ checked' = IF current \ seen = {} THEN checked
                           ELSE Append(checked, [pids |-> current \ seen,
                                                 src |-> "poll"])]_vars

\* S0 = {1}, S1 = S0 + {7, 9}, S2 = S1 - {7}: the only batch is {7, 9}
C6_Witness ==
    /\ ticks = 2
    /\ seen = {1, 9}
    /\ checked = << [pids |-> {7, 9}, src |-> "poll"] >>

\* C7: the receive loop never waits for the consumer. An iteration of the
\* message loop can always be taken, whatever the channel holds; when the
\* channel is full and the message decodes to a pid, the iteration leaves
\* the channel as it is, accepts nothing, logs the dropped pid and goes on
\* to the next message or the next read.
C7_FullQueueDropsNewest ==
    /\ [](gpc = "msgs" => ENABLED GSend)
    /\ [][(/\ gpc = "msgs"
           /\ msgs' # msgs
           /\ Len(ch) = PidChCap
           /\ parseCnProcExec(Head(msgs))[2])
          => (/\ ch' = ch
              /\ accepted' = accepted
              /\ glog' = Append(glog, <<"drop", parseCnProcExec(Head(msgs))[1]>>)
              /\ msgs' = Tail(msgs)
              /\ gpc' = IF msgs' = << >> THEN "select" ELSE "msgs")]_vars

\* a pid was dropped with the channel full, and the receive loop is back at
\* its read
C7_Witness ==
    /\ Len(ch) = PidChCap
    /\ glog = << <<"drop", 7>> >>
    /\ AcceptedPids = <<7, 9>>
    /\ gpc = "read"

\* C8: once the context is cancelled while the receive goroutine is in
\* syscall.Read, the goroutine ends and the socket is closed.
C8_StopInterruptsBlockingRead ==
    (cancelled /\ gpc = "read") ~> (gpc = "done" /\ ~sockOpen)

\* C9: a queued stop signal leads to run() returning, from the start of
\* run(), from the netlink loop and from the polling loop; once run() has
\* returned it stays so and checkNew is not called again.
C9_SignalLeadsToStopped ==
    /\ sigCh ~> pc = "stopped"
    /\ [][pc = "stopped" => (pc' = "stopped" /\ checked' = checked)]_vars

\* run() returned from the polling loop it had entered from the netlink loop,
\* after handing over pids in both modes
C9_Witness ==
    /\ pc = "stopped"
    /\ listenErr = "nil"
    /\ ticker = "stopped"
    /\ NetlinkChecked # << >>
    /\ PollChecked # << >>

\* C10: once the poller is started it is started for good: run() stays in
\* the polling loop until the signal case ends it, the poller is not started
\* a second time, and no socket is opened and no receive loop entered again.
C10_PollingIsFinal ==
    [][PollerStarted =>
         /\ pc' \in {"polling", "stopped"}
         /\ (pc = "polling" /\ pc' = "stopped") => (sigCh /\ ~sigCh')
         /\ tickerStart' = tickerStart
         /\ ticker' \in {"running", "stopped"}
         /\ listenErr' = listenErr
         /\ sockOpen' => sockOpen
         /\ gpc' \in {"read", "msgs", "select"} => gpc \in {"read", "msgs", "select"}]_vars

\* polling, entered from the netlink loop, is still on after two ticks
C10_Witness ==
    /\ pc = "polling"
    /\ listenErr = "nil"
    /\ ticks = 2

\* C11: the pids handed to checkNew by the netlink loop, followed by those
\* still in the channel, are the pids accepted into the channel in the order
\* of their sends, and these are a subsequence of the exec events read from
\* the socket, in the order of the datagrams and of the messages within a
\* datagram: pids are dropped, never reordered.
C11_DeliveredInKernelOrder ==
    /\ NetlinkChecked \o ch = AcceptedPids
    /\ IsSubseq(AcceptedPids, execRead)
    /\ \A i \in 1..Len(checked) :
         checked[i].src = "netlink" => Cardinality(checked[i].pids) = 1

\* two datagrams, 7 9 7 then 7: the third event was dropped with the channel
\* full, the others were handed over in the order read
C11_Witness ==
    /\ execRead = <<7, 9, 7, 7>>
    /\ glog = << <<"drop", 7>> >>
    /\ NetlinkChecked = <<7, 9, 7>>

\* the fields of a buffer that holds a whole frame
FrameIdx(data) == U32At(data, IdxOffset)
FrameVal(data) == U32At(data, ValOffset)
FrameWhat(data) == U32At(data, cnMsgSize + WhatOffset)
FrameExecPid(data) == U32At(data, cnMsgSize + ExecPidOffset)
\* a buffer that passes the three checks of parseCnProcExec
IsExecFrame(data) ==
    /\ Len(data) >= cnMsgHeaderSize + procEventMinSize
    /\ FrameIdx(data) = U32(CN_IDX_PROC)
    /\ FrameVal(data) = U32(CN_VAL_PROC)
    /\ FrameWhat(data) = U32(PROC_EVENT_EXEC)

\* C12: parseCnProcExec returns ok = false, with pid 0, for a buffer shorter
\* than cnMsgHeaderSize + procEventMinSize = 44 bytes (the empty buffer
\* included), for a connector index or value other than CN_IDX_PROC and
\* CN_VAL_PROC, and for an event tag other than PROC_EVENT_EXEC; it returns
\* ok = true exactly when the three checks pass; its reader never goes past
\* the end of the buffer.
C12_DecoderFailsClosed ==
    decOut.done =>
        /\ Len(decIn) < 44 => ~decOut.ok
        /\ (Len(decIn) >= 44 /\ FrameIdx(decIn) # <<0, 1>>) => ~decOut.ok
        /\ (Len(decIn) >= 44 /\ FrameVal(decIn) # <<0, 1>>) => ~decOut.ok
        /\ (Len(decIn) >= 44 /\ FrameWhat(decIn) # <<0, 2>>) => ~decOut.ok
        /\ decOut.ok <=> IsExecFrame(decIn)
        /\ ~decOut.ok => decOut.pid = 0
        /\ decOut.pos <= Len(decIn)

\* a whole frame of another event tag was refused after both structs were
\* read
C12_Witness ==
    /\ decOut.done
    /\ decIn = ForkMsg(7) \o Zeros(4)
    /\ ~decOut.ok
    /\ decOut.pos = 44

\* C13 as stated: for every value of the 32-bit ExecPid field (0 to
\* 2^32 - 1), decoding an exec frame that carries it returns that number.
C13_RoundTripWholeFieldRange ==
    (decOut.done /\ IsExecFrame(decIn)) =>
        /\ decOut.ok
        /\ decOut.pid \div 65536 = FrameExecPid(decIn)[1]
        /\ decOut.pid % 65536 = FrameExecPid(decIn)[2]

\* C13, amended: decoding an exec frame returns ok and the ExecPid field as
\* an int32: the number the field carries when that is at most 2^31 - 1,
\* and that number less 2^32 (a negative pid) when it is 2^31 or more. The
\* ExecTgid field plays no part.
C13_RoundTripInt32Range ==
    (decOut.done /\ IsExecFrame(decIn)) =>
        LET f == FrameExecPid(decIn)
        IN  /\ decOut.ok
            /\ decOut.pid % 65536 = f[2]
            /\ f[1] < 32768 => decOut.pid \div 65536 = f[1]
            /\ f[1] >= 32768 => decOut.pid \div 65536 = f[1] - 65536

\* the largest pid that comes back as itself, in a frame whose tgid differs
C13_Witness ==
    /\ decOut.done
    /\ IsExecFrame(decIn)
    /\ FrameExecPid(decIn) = <<32767, 65535>>
    /\ U32At(decIn, cnMsgSize + ExecPidOffset + 4) = <<0, 7>>
    /\ decOut.ok
    /\ decOut.pid = 32767 * 65536 + 65535

\* C14: the poller does not go on polling once process enumeration keeps
\* failing: when the baseline and the two ticks after it have all failed to
\* list the processes, run() is no longer in the polling loop.
C14_EnumerationFailureIsFatal ==
    (ticks >= 2 /\ enumFails = ticks + 1) => pc # "polling"

\* C19: a process that was in the process table at the baseline and at
\* every tick since (it ran throughout) is in no batch that a tick hands
\* to checkNew, also when one of those enumerations failed.
C19_SteadyProcessNeverNew ==
    [][(ticks' = ticks + 1 /\ checked' # checked)
       => checked'[Len(checked')].pids \cap steady' = {}]_vars

\* C15: when run() returns, the detection resource is released already: the
\* netlink socket is closed and the receive goroutine, if one was started,
\* has finished; the ticker, if one was created, is stopped.
C15_ResourcesReleasedAtReturn ==
    [][(pc # "stopped" /\ pc' = "stopped")
       => (/\ ~sockOpen'
           /\ gpc' \in {"none", "done"}
           /\ ticker' # "running")]_vars

\* the receive goroutine has logged a terminal read error
TerminalReadError == \E i \in 1..Len(glog) : glog[i] = <<"read error">>

\* C16: a return of syscall.Read with an error leaves the channel, the
\* socket and the pending messages as they are and is one of three: EINTR
\* (nothing logged) and ENOBUFS (logged), after which the goroutine is back
\* at the top of its loop with the socket and the channel open, and any
\* other error (logged as a read error), after which the goroutine returns.
\* Only the last ends the stream: once it is logged the goroutine can only
\* run its deferred calls, which are always able to run and leave the
\* channel and the socket closed, and nothing more is sent on the channel.
C16_OnlyOtherReadErrorsAreTerminal ==
    /\ [][(/\ gpc = "read"
           /\ gpc' # "read"
           /\ ~(reads' = reads + 1 /\ glog' = glog))
          => (/\ ch' = ch
              /\ accepted' = accepted
              /\ msgs' = msgs
              /\ sockOpen' = sockOpen
              /\ chClosed' = chClosed
              /\ \/ gpc' = "select" /\ glog' = glog /\ reads' = reads
                 \/ gpc' = "select" /\ glog' = Append(glog, <<"ENOBUFS">>)
                 \/ gpc' = "return" /\ glog' = Append(glog, <<"read error">>)
              /\ gpc' = "select" => (sockOpen' /\ ~chClosed'))]_vars
    /\ [](TerminalReadError => gpc \in {"return", "closefd", "done"})
    /\ [][TerminalReadError
          => (accepted' = accepted /\ Len(ch') <= Len(ch))]_vars
    /\ [](gpc = "return" => ENABLED GCloseCh)
    /\ [](gpc = "closefd" => (chClosed /\ ENABLED GCloseFd))
    /\ [](gpc = "done" => (chClosed /\ ~sockOpen))

\* ENOBUFS after a datagram: it is logged, the pid sent before it is still
\* in the channel, the socket and the channel are open and the goroutine
\* is in syscall.Read again
C16_Witness ==
    /\ glog = << <<"ENOBUFS">> >>
    /\ ch = <<7>>
    /\ reads = 2
    /\ gpc = "read"
    /\ sockOpen
    /\ ~chClosed

C18_OwnerIndependentOfConsumer ==
    [][/\ checked' # checked
          => (/\ ch # << >>
              /\ ch' = Tail(ch)
              /\ tickC' = tickC /\ ticks' = ticks /\ seen' = seen
              /\ ticker' = ticker
              /\ sockOpen' = sockOpen /\ msgs' = msgs /\ reads' = reads)
       /\ (gpc' # gpc \/ ticks' # ticks) => checked' = checked]_vars

\* C20: the pid channel is closed by the receive goroutine only, on its way
\* out (the step from its return to the close of the fd), and only while it
\* is still open, so never twice; a goroutine that has finished has closed
\* it; once it is closed it stays closed, the goroutine is past its loop,
\* and nothing is sent on it again (receives may still empty it).
C20_ChannelClosedOnceByProducer ==
    /\ [][chClosed' # chClosed
          => (~chClosed /\ gpc = "return" /\ gpc' = "closefd")]_vars
    /\ [](gpc = "return" => ~chClosed)
    /\ [](gpc = "done" => chClosed)
    /\ [](chClosed => gpc \in {"closefd", "done"})
    /\ [][chClosed => (/\ chClosed'
                       /\ accepted' = accepted
                       /\ (ch' = ch \/ (ch # << >> /\ ch' = Tail(ch))))]_vars

\* the goroutine ended on cancellation, not on a read error, and closed the
\* channel while it still held a pid that run() never received
C20_Witness ==
    /\ chClosed
    /\ gpc = "done"
    /\ cancelled
    /\ ~TerminalReadError
    /\ pc = "stopped"
    /\ ch = <<9>>
    /\ NetlinkChecked = <<7>>

====
